---- MODULE Spec2Model ----
(***************************************************************************)
(* MNIST_Digits_TensorFlow.py: the stratified mini-batch training loops.   *)
(*                                                                         *)
(* The script prepares the training labels y_training, derives the number  *)
(* of mini-batches total_batch from the target batch size n_batch, builds  *)
(* ONE StratifiedKFold splitter with the fixed integer seed 428, and then  *)
(* runs four experiments (logistic regression, single hidden layer, two    *)
(* layer perceptron, convolutional network) whose training loops are the   *)
(* same code: for every epoch, iterate over skfold.split(...), run the     *)
(* optimizer on each fold's test indices, accumulate c / total_batch, and  *)
(* report every display_step epochs; after the loop, report once more.     *)
(*                                                                         *)
(* Numbers are exact rationals (floating-point rounding is not modelled).  *)
(* Indices of examples are 1..n_samp; folds are numbered 0..total_batch-1  *)
(* as in the script.                                                       *)
(***************************************************************************)
EXTENDS Integers, Sequences, FiniteSets, TLC

\* ------------------------------------------------------------- bounds
MaxSamp == 4
MaxEpoch == 2
\* largest example count of the batch-count arithmetic
MaxCount == 100

\* Class labels of the bounded datasets (the script has the ten digits).
Labels == {0, 1}
\* Target batch sizes n_batch, a float in the script: <<numerator, denominator>>.
\* (MaxSamp - 1) / 2 gives two folds to the largest datasets, 5 gives none or
\* one to every dataset, 2 / 5 gives more folds than examples.
NBatchChoices == {<<MaxSamp - 1, 2>>, <<5, 1>>, <<2, 5>>}
\* Ten examples, five of each of two classes, in two folds.
TenExamples == [i \in 1..10 |-> IF i <= 5 THEN 0 ELSE 1]
\* Reporting intervals display_step.
DisplaySteps == {1, 2}
\* Scalar batch losses the cost op can return.
Losses == {1, 2}
\* The two fold-allocation algorithms of StratifiedKFold the unpinned
\* scikit-learn import can resolve to: one KFold per class (releases up to
\* 0.21) and the balanced allocation over the sorted labels (0.22 and later).
Impls == {"per_class_kfold", "balanced"}

\* ------------------------------------------------------------- program constants
NumExperiments == 4

VARIABLES
    impl,          \* which StratifiedKFold algorithm the installed library has
    y_training,    \* ordinal class labels of the training set
    x_training_scaled, \* the design matrix: one feature row per example
    y_training_oh, \* the one-hot rows of the training labels
    n_batch,       \* target mini-batch size <<num, den>>
    skfold,        \* the splitter object (Unbuilt before it is constructed)
    rs428,         \* what RandomState(428) yields for this data: {} until first drawn, then {draw}
    run,           \* 0: the script is executed once; 1, 2: first and second of two
                   \* executions; 3, 4: the first training loop run and run again;
                   \* 5, 6: the scaling done on two validation sets
    expt,          \* the experiment (1..4) whose training loop is running
    sess,          \* "open" / "closed"
    initialized,   \* the variable initializer has run in this session
    pc,            \* position in the script
    n_epoch,
    display_step,
    epoch,
    avg_cost,      \* running cost, a rational <<num, den>>
    test_folds,    \* fold number of every example in the current epoch's split
    fold,          \* number of the fold the loop is at
    train_steps,   \* optimizer runs since the initializer
    evals,         \* accuracy evaluations since the initializer
    params,        \* the model parameters: the minibatches the optimizer has
                   \* been run on since the initializer, in order
    calls,         \* the sess.run calls of the step just taken, in order
    raised,        \* the exception that ended the script: "none" or the call that raised
    log,           \* the reports printed in this experiment, in order
    printed_cost,  \* history: the cost figure printed for the epoch just ended
                   \* (<<0, 1>> again once the next epoch has begun)
    wsum,          \* history: sum over this epoch's batches of loss * batch size
    fed,           \* history: the batches fed to the optimizer in this epoch
    csum,          \* history: sum of this epoch's batch losses
    prev_folds,    \* history: the previous epoch's split (<<>> in epoch 0)
    run1_parts,    \* history: the splits that the first of two executions produced
    run1_end,      \* history: {} or what the first of two runs of the training
                   \* loop had done when it finished
    y_train,       \* the label column of train.csv
    training_idx,  \* rows of the file in the training set, in the split's order
    validation_idx, \* rows of the file in the validation set
    x_training,    \* the pixel rows of the training set, unscaled
    x_validation,  \* the pixel rows of the validation set, unscaled
    training_scaler, \* max_abs_ of the fitted MaxAbsScaler (<<>> before fit)
    x_validation_scaled,
    y_validation_oh,
    lb,            \* classes_ of the fitted LabelBinarizer (<<>> before fit)
    y_act,         \* np.argmax(y_validation_oh, 1)
    run1_scaled,   \* history: {} or the scaler and scaled training set of the
                   \* first of two executions of the scaling
    vec,           \* the 784 pixels of the row a window function is called on
    upper_shown,   \* what upper_pixel_mat returned for vec
    lower_shown,   \* what lower_pixel_mat returned for vec
    graph,         \* the tensors of the convolutional network built so far
    prob_y,        \* the class probabilities of the example being displayed
    top_pred,      \* np.argmax(prob_y), -1 before it is computed
    arg_sort,      \* np.argsort(-prob_y)
    sec_choice     \* arg_sort[1], -1 before it is computed

\* the data preparation
prepVars == <<y_train, training_idx, validation_idx, x_training, x_validation,
              training_scaler, x_validation_scaled, y_validation_oh, lb, y_act,
              run1_scaled>>

\* the windows on the upper and lower half of an image
windowVars == <<vec, upper_shown, lower_shown>>

\* the display of the misclassified examples
errorVars == <<prob_y, top_pred, arg_sort, sec_choice>>

\* the data preparation and the cells outside the training loops
notebookVars == <<prepVars, windowVars, graph, errorVars>>

\* the training loops
loopVars == <<impl, y_training, x_training_scaled, y_training_oh, n_batch, skfold,
          rs428, run, expt, sess, initialized, pc, n_epoch, display_step, epoch,
          avg_cost, test_folds, fold, train_steps, evals, params, calls, raised,
          log, printed_cost, wsum, csum, fed, prev_folds, run1_parts, run1_end>>

\* the training loops, without the data they run on, the position in the
\* script and the number of the execution
loopState == <<impl, n_batch, skfold, rs428, expt, sess, initialized, n_epoch,
               display_step, epoch, avg_cost, test_folds, fold, train_steps,
               evals, params, calls, raised, log, printed_cost, wsum, csum, fed,
               prev_folds, run1_parts, run1_end>>

vars == <<loopVars, notebookVars>>

\* ------------------------------------------------------------- rationals
Abs(a) == IF a < 0 THEN -a ELSE a

RECURSIVE Gcd(_, _)
Gcd(a, b) == IF b = 0 THEN a ELSE Gcd(b, a % b)

Rat(n, d) ==
    LET g == Gcd(Abs(n), d) IN <<n \div g, d \div g>>

\* a slip: avg_cost = c / total_batch in place of avg_cost += c / total_batch
RatAssign(a, b) == b

RatAdd(a, b) == Rat(a[1] * b[2] + b[1] * a[2], a[2] * b[2])

\* ------------------------------------------------------------- dataset
n_samp == Len(y_training)

Datasets == UNION {[1..n -> Labels] : n \in 0..MaxSamp}

\* the label arrays and target batch sizes the script is run on
Configs ==
    {<<y, nb>> : y \in Datasets, nb \in NBatchChoices} \cup {<<TenExamples, <<5, 1>>>>}

\* a slip: round() in place of int()
TotalBatchRounded(n, nb) == (2 * n * nb[2] + nb[1]) \div (2 * nb[1])

\* int(n_samp / n_batch): the quotient of a count by a positive size is not
\* negative, so truncation rounds it down
TotalBatchOf(n, nb) == (n * nb[2]) \div nb[1]

total_batch == TotalBatchOf(n_samp, n_batch)

ClassesOf(y) == {y[i] : i \in DOMAIN y}

Count(y, c) == Cardinality({i \in DOMAIN y : y[i] = c})

\* lb.transform: the row of a label has a 1 in the column of its class and 0
\* elsewhere (lb is fitted on the labels of the whole training file)
OneHot(c) == [k \in Labels |-> IF k = c THEN 1 ELSE 0]

\* a slip: the one-hot rows are made from the labels of another array (the
\* rows of the example that follows, cyclically)
TransformShifted(y) == [i \in DOMAIN y |-> OneHot(y[(i % Len(y)) + 1])]

\* y_training_oh = lb.transform(y_training)
Transform(y) == [i \in DOMAIN y |-> OneHot(y[i])]

\* np.argmax of a one-hot row: the class it encodes
Decode(row) == CHOOSE k \in DOMAIN row : row[k] = 1

\* the rows of x_training_scaled: row i holds the scaled pixels of example i,
\* identified here by the example's index
Features(y) == [i \in DOMAIN y |-> i]

\* the held-out validation set when only the training loops are followed:
\* one example, outside the training indices
OneValidationExample ==
    /\ x_validation_scaled = <<0>>
    /\ y_validation_oh = <<OneHot(0)>>

\* position (1-based) of example i among the examples of its class
RankInClass(y, i) == Cardinality({m \in 1..i : y[m] = y[i]})


\* ------------------------------------------------------------- StratifiedKFold
\* KFold: fold_sizes = n // k everywhere, plus one in the first n % k folds
KFoldSize(n, k, i) == (n \div k) + (IF i < n % k THEN 1 ELSE 0)

\* the ways a shuffle can lay out, over len slots, counts[i] copies of fold i
Arrangements(len, k, counts) ==
    {f \in [1..len -> 0..(k - 1)] :
        \A i \in 0..(k - 1) : Cardinality({j \in 1..len : f[j] = i}) = counts[i]}

\* releases up to 0.21: one shuffled KFold per class over max(count, k)
\* placeholder samples, the test indices beyond the class's count dropped
PerClassArr(y, k, c) ==
    LET nc == Count(y, c)
        np == IF nc > k THEN nc ELSE k
        sizes == [i \in 0..(k - 1) |-> KFoldSize(np, k, i)]
    IN  {[j \in 1..nc |-> f[j]] : f \in Arrangements(np, k, sizes)}

FirstIndex(y, c) == CHOOSE i \in DOMAIN y : y[i] = c /\ \A m \in 1..(i - 1) : y[m] # c

\* 0.22 and later: classes are encoded in order of first appearance, the
\* encoded labels sorted, and fold i is allocated the labels at the sorted
\* positions i, i + k, i + 2k, ... (positions counted from 0)
Offset(y, c) == Cardinality({i \in DOMAIN y : FirstIndex(y, y[i]) < FirstIndex(y, c)})

\* a slip: the balanced allocation replaced by one KFold's sizes per class
AllocationPerClass(y, k, i, c) == (Count(y, c) \div k) + (IF i < Count(y, c) % k THEN 1 ELSE 0)

Allocation(y, k, i, c) ==
    Cardinality({p \in Offset(y, c)..(Offset(y, c) + Count(y, c) - 1) : p % k = i})

BalancedArr(y, k, c) ==
    Arrangements(Count(y, c), k, [i \in 0..(k - 1) |-> Allocation(y, k, i, c)])

ClassArr(im, y, k, c) ==
    IF im = "balanced" THEN BalancedArr(y, k, c) ELSE PerClassArr(y, k, c)

\* every outcome the per-class shuffles can have: class -> (rank in class -> fold)
SplitSpace(im, y, k) ==
    LET cs == ClassesOf(y)
        all == UNION {ClassArr(im, y, k, c) : c \in cs}
    IN  {d \in [cs -> all] : \A c \in cs : d[c] \in ClassArr(im, y, k, c)}

\* a slip: every member of a class is given the fold of the class's first member
MakeTestFoldsByClass(y, d) == [i \in DOMAIN y |-> d[y[i]][1]]

\* test_folds[y == cls] = the class's shuffled fold numbers
MakeTestFolds(y, d) == [i \in DOMAIN y |-> d[y[i]][RankInClass(y, i)]]

\* a slip: one fold too many is accepted, and the per-class check is missing
SplitErrorLax(y, k) ==
    IF k > Len(y) + 1 THEN "n_splits greater than the number of samples" ELSE "ok"

\* the checks split() makes before it yields the first fold
SplitError(y, k) ==
    IF k > Len(y) THEN "n_splits greater than the number of samples"
    ELSE IF \A c \in ClassesOf(y) : k > Count(y, c)
         THEN "n_splits greater than the number of members in each class"
         ELSE "ok"

\* a slip: random_state=None, every call of split() draws fresh shuffles
UnseededDraws(memo, space) == space

\* random_state = 428 is an integer: every call of split() seeds a new
\* RandomState with it, so the shuffles drawn are those drawn the first time
SeededDraws(memo, space) == IF memo = {} THEN space ELSE memo

\* a slip: the fold loop stops one fold early
NFoldsShort(sk) == sk.n_splits - 1

\* the number of folds split() yields
NFolds(sk) == sk.n_splits

\* a slip: folds taken to be numbered from 1
BatchOneBased(tf, i) == {j \in DOMAIN tf : tf[j] = i + 1}

\* the test indices of fold i
Batch(tf, i) == {j \in DOMAIN tf : tf[j] = i}

\* ------------------------------------------------------------- session runs
\* the p-th smallest member of a set of indices
Nth(idx, p) == CHOOSE j \in idx : Cardinality({m \in idx : m <= j}) = p

\* arr[batch_idx]: indexing with an array of indices copies the rows at the
\* indices, in the order of the indices (split() yields them ascending)
TakeRows(arr, idx) == [p \in 1..Cardinality(idx) |-> arr[Nth(idx, p)]]

\* a slip: the rows are moved out of the array instead of copied
RowsRemoved(arr, idx) == SubSeq(arr, 1, Len(arr) - Cardinality(idx))

\* the array after arr[batch_idx] and after being fed to sess.run: indexing
\* copies and feeding only reads, so the array keeps its rows
AfterUse(arr, idx) == arr

\* the models of experiments 2, 3 and 4 have a dropout layer fed by keep_prob
HasDropout(ex) == ex >= 2

\* the keep_prob entry of a training feed_dict ({}: no such entry)
TrainKeepProb(ex) == IF HasDropout(ex) THEN {<<1, 2>>} ELSE {}

\* a slip: the training feed_dict copied into an evaluation
EvalKeepProbOfTraining(ex) == IF HasDropout(ex) THEN {<<1, 2>>} ELSE {}

\* the keep_prob entry of an evaluation or prediction feed_dict
EvalKeepProb(ex) == IF HasDropout(ex) THEN {<<1, 1>>} ELSE {}

\* sess.run(tf.global_variables_initializer())
InitCall == [fetches |-> {"init"}, x |-> <<>>, y_true |-> <<>>, keep_prob |-> {}]

\* sess.run([optimizer, cost], feed_dict={x: x_batch, y_true: y_batch[, keep_prob: 0.5]})
TrainCall(ex, x_batch, y_batch) ==
    [fetches |-> {"optimizer", "cost"}, x |-> x_batch, y_true |-> y_batch,
     keep_prob |-> TrainKeepProb(ex)]

\* sess.run(accr, feed_dict={x: ..., y_true: ...[, keep_prob: 1.]})
EvalCall(ex, xs, ys) ==
    [fetches |-> {"accr"}, x |-> xs, y_true |-> ys, keep_prob |-> EvalKeepProb(ex)]

\* the two evaluations of a report, on the training and on the validation set
EvalCalls(ex, xtr, ytr) ==
    <<EvalCall(ex, xtr, ytr), EvalCall(ex, x_validation_scaled, y_validation_oh)>>

\* sess.run(tf.nn.softmax(z_out), feed_dict={..., keep_prob: 1.})
PredictCall(ex) ==
    [fetches |-> {"softmax"}, x |-> x_validation_scaled, y_true |-> y_validation_oh,
     keep_prob |-> EvalKeepProb(ex)]

\* a slip: the optimizer is among the fetches of every run
SessRunAlwaysTrains(p, call) == Append(p, call.x)

\* the parameters after sess.run: only a run that fetches the optimizer op
\* applies an update, computed from the rows fed
SessRun(p, call) == IF "optimizer" \in call.fetches THEN Append(p, call.x) ELSE p

RECURSIVE SessRuns(_, _)
\* the parameters after a sequence of runs
SessRuns(p, cs) == IF cs = <<>> THEN p ELSE SessRuns(SessRun(p, Head(cs)), Tail(cs))

\* a slip: the failing call is wrapped in try/except and the loop goes on
CaughtAndContinued(at) == at

\* no try/except anywhere: an exception raised by sess.run ends the script
Uncaught(at) == "model_error"

\* a slip: the loop stops as soon as the cost of the last epoch is 1 or less
EpochLoopUntilConverged(e, ne) == e < ne /\ ~(e >= 1 /\ avg_cost[1] <= avg_cost[2])

\* a slip: an early-stopping test left in the loop ends it after one epoch
EpochLoopStopsEarly(e, ne) == e < ne /\ e < 1

\* for epoch in range(n_epoch): another epoch follows
EpochLoopRuns(e, ne) == e < ne

\* a slip: the reset is missing, the cost carries over from the epoch before
CostCarriedOver(prev) == prev

\* avg_cost = 0.
EpochInitCost(prev) == <<0, 1>>

\* ------------------------------------------------------------- the script
\* the name skfold before the statement that binds it: no splitter, no folds
Unbuilt == [n_splits |-> 0, shuffle |-> FALSE, random_state |-> 0]

\* the training cells before the splitter is constructed
LoopNotBegun ==
    /\ skfold = Unbuilt
    /\ rs428 = {}
    /\ expt = 1
    /\ sess = "open"
    /\ initialized = FALSE
    /\ n_epoch = 0
    /\ display_step = 1
    /\ epoch = 0
    /\ avg_cost = <<0, 1>>
    /\ test_folds = <<>>
    /\ fold = 0
    /\ train_steps = 0
    /\ evals = 0
    /\ params = <<>>
    /\ calls = <<>>
    /\ raised = "none"
    /\ log = <<>>
    /\ printed_cost = <<0, 1>>
    /\ wsum = 0
    /\ csum = 0
    /\ fed = <<>>
    /\ prev_folds = <<>>
    /\ run1_parts = {}
    /\ run1_end = {}

\* the state when the script reaches the construction of the splitter, run
\* on one of the label arrays and target batch sizes cfgs
StartOn(cfgs) ==
    /\ impl \in Impls
    /\ \E cf \in cfgs :
          /\ y_training = cf[1]
          /\ x_training_scaled = Features(cf[1])
          /\ y_training_oh = Transform(cf[1])
          /\ n_batch = cf[2]
    /\ pc = "build"
    /\ LoopNotBegun

\* the cells outside the training loops, when they are not followed
PrepIdle ==
    /\ y_train = <<>>
    /\ training_idx = <<>>
    /\ validation_idx = <<>>
    /\ x_training = <<>>
    /\ x_validation = <<>>
    /\ training_scaler = <<>>
    /\ lb = <<>>
    /\ y_act = <<>>
    /\ run1_scaled = {}

WindowsIdle ==
    /\ vec = <<>>
    /\ upper_shown = <<>>
    /\ lower_shown = <<>>

GraphIdle == graph = <<>>

ErrorsIdle ==
    /\ prob_y = <<>>
    /\ top_pred = -1
    /\ arg_sort = <<>>
    /\ sec_choice = -1

OtherCellsIdle == PrepIdle /\ WindowsIdle /\ GraphIdle /\ ErrorsIdle

\* the training loops when they are not followed: nothing loaded, nothing run
LoopsIdleIn(r) ==
    /\ run = r
    /\ impl = "balanced"
    /\ StartOn({<<<<>>, <<5, 1>>>>})
    /\ x_validation_scaled = <<>>
    /\ y_validation_oh = <<>>

LoopsIdle == LoopsIdleIn(0)

Start == StartOn(Configs) /\ OneValidationExample /\ OtherCellsIdle

Init == run = 0 /\ Start

\* a slip: only n_splits = 0 is refused
CtorErrorZeroOnly(k) == k <= 0

\* the constructor of StratifiedKFold refuses n_splits <= 1
CtorError(k) == k <= 1

\* a slip: the initializer is not run, the variables keep what they had
InitializerSkipped(p) == p

\* the parameters after tf.global_variables_initializer(): the initial
\* values of the graph's variables, no update applied
Initialize(p) == <<>>

\* skfold = StratifiedKFold(n_splits=total_batch, shuffle=True, random_state=428)
ConstructSkfold ==
    /\ pc = "build"
    /\ IF CtorError(total_batch)
       THEN /\ pc' = "config_error"
            /\ UNCHANGED skfold
       ELSE /\ skfold' = [n_splits |-> total_batch, shuffle |-> TRUE, random_state |-> 428]
            /\ pc' = "setup"
    /\ calls' = <<>>
    /\ UNCHANGED <<impl, y_training, x_training_scaled, y_training_oh, n_batch,
                   rs428, run, expt, sess, initialized, n_epoch, display_step,
                   epoch, avg_cost, test_folds, fold, train_steps, evals, params,
                   raised, log, printed_cost, wsum, csum, fed, prev_folds,
                   run1_parts, run1_end>>
    /\ UNCHANGED notebookVars

\* n_epoch = ...; display_step = ...; sess.run(tf.global_variables_initializer())
InitVariables ==
    /\ pc = "setup"
    /\ sess = "open"
    /\ \E ne \in 1..MaxEpoch, ds \in DisplaySteps :
          /\ n_epoch' = ne
          /\ display_step' = ds
    /\ initialized' = TRUE
    /\ train_steps' = 0
    /\ evals' = 0
    /\ params' = Initialize(params)
    /\ calls' = <<InitCall>>
    /\ epoch' = 0
    /\ log' = <<>>
    /\ printed_cost' = <<0, 1>>
    /\ test_folds' = <<>>
    /\ prev_folds' = <<>>
    /\ fed' = <<>>
    /\ wsum' = 0
    /\ csum' = 0
    /\ fold' = 0
    /\ avg_cost' = <<0, 1>>
    /\ run1_end' = {}
    /\ pc' = "epoch"
    /\ UNCHANGED <<impl, y_training, x_training_scaled, y_training_oh, n_batch,
                   skfold, rs428, run, expt, sess, raised, run1_parts>>
    /\ UNCHANGED notebookVars

\* for epoch in range(n_epoch): avg_cost = 0.; the first next() of
\* skfold.split(x_training_scaled, y_training) checks the arguments and
\* shuffles every class into the folds
EpochStart ==
    /\ pc = "epoch"
    /\ EpochLoopRuns(epoch, n_epoch)
    /\ avg_cost' = EpochInitCost(avg_cost)
    /\ printed_cost' = <<0, 1>>
    /\ wsum' = 0
    /\ csum' = 0
    /\ fed' = <<>>
    /\ fold' = 0
    /\ calls' = <<>>
    /\ IF SplitError(y_training, skfold.n_splits) # "ok"
       THEN /\ pc' = "config_error"
            /\ UNCHANGED <<rs428, test_folds, prev_folds, run1_parts>>
       ELSE \E d \in SeededDraws(rs428, SplitSpace(impl, y_training, skfold.n_splits)) :
              /\ rs428' = {d}
              /\ test_folds' = MakeTestFolds(y_training, d)
              /\ prev_folds' = test_folds
              /\ run1_parts' = IF run = 1
                               THEN run1_parts \cup {MakeTestFolds(y_training, d)}
                               ELSE run1_parts
              /\ pc' = "batch"
    /\ UNCHANGED <<impl, y_training, x_training_scaled, y_training_oh, n_batch,
                   skfold, run, expt, sess, initialized, n_epoch, display_step,
                   epoch, train_steps, evals, params, raised, log, run1_end>>
    /\ UNCHANGED notebookVars

\* one iteration of the fold loop: slice the batch, run [optimizer, cost],
\* avg_cost += c / total_batch
TrainStep ==
    /\ pc = "batch"
    /\ fold < NFolds(skfold)
    /\ LET batch_idx == Batch(test_folds, fold)
           x_batch == TakeRows(x_training_scaled, batch_idx)
           y_batch == TakeRows(y_training_oh, batch_idx)
           call == TrainCall(expt, x_batch, y_batch)
       IN  /\ x_training_scaled' = AfterUse(x_training_scaled, batch_idx)
           /\ y_training_oh' = AfterUse(y_training_oh, batch_idx)
           /\ calls' = <<call>>
           /\ params' = SessRun(params, call)
           /\ \E c \in Losses :
                 /\ avg_cost' = RatAdd(avg_cost, Rat(c, total_batch))
                 /\ wsum' = wsum + c * Cardinality(batch_idx)
                 /\ csum' = csum + c
           /\ fed' = Append(fed, batch_idx)
    /\ train_steps' = train_steps + 1
    /\ fold' = fold + 1
    /\ pc' = IF fold + 1 = NFolds(skfold) THEN "epoch_end" ELSE "batch"
    /\ UNCHANGED <<impl, y_training, n_batch, skfold, rs428, run, expt, sess,
                   initialized, n_epoch, display_step, epoch, test_folds, evals,
                   raised, log, printed_cost, prev_folds, run1_parts, run1_end>>
    /\ UNCHANGED notebookVars

\* sess.run([optimizer, cost], ...) raises: nothing catches it
TrainStepFails ==
    /\ pc = "batch"
    /\ fold < NFolds(skfold)
    /\ LET batch_idx == Batch(test_folds, fold)
       IN  calls' = <<TrainCall(expt, TakeRows(x_training_scaled, batch_idx),
                                TakeRows(y_training_oh, batch_idx))>>
    /\ raised' = "train_step"
    /\ pc' = Uncaught(pc)
    /\ UNCHANGED <<impl, y_training, x_training_scaled, y_training_oh, n_batch,
                   skfold, rs428, run, expt, sess, initialized, n_epoch,
                   display_step, epoch, avg_cost, test_folds, fold, train_steps,
                   evals, params, log, printed_cost, wsum, csum, fed, prev_folds,
                   run1_parts, run1_end>>
    /\ UNCHANGED notebookVars

\* what accr evaluates to on a dataset: decided by the data and by the
\* parameters, which are decided by the optimizer runs made so far
Accr(data, steps) == <<data, steps>>

\* a slip: (epoch + 1) % display_step == 0
ReportDueOffByOne(e, ds) == (e + 1) % ds = 0

\* epoch % display_step == 0
ReportDue(e, ds) == e % ds = 0

\* if epoch % display_step == 0: print epoch and cost, evaluate and print
\* the training accuracy, evaluate and print the validation accuracy
EpochEnd ==
    /\ pc = "epoch_end"
    /\ IF ReportDue(epoch, display_step)
       THEN /\ calls' = EvalCalls(expt, x_training_scaled, y_training_oh)
            /\ params' = SessRuns(params, EvalCalls(expt, x_training_scaled, y_training_oh))
            /\ log' = Append(log, [kind |-> "epoch", epoch |-> epoch,
                                   train_acc |-> Accr("training", train_steps),
                                   val_acc |-> Accr("validation", train_steps)])
            /\ printed_cost' = avg_cost
            /\ evals' = evals + 2
       ELSE /\ calls' = <<>>
            /\ UNCHANGED <<params, log, printed_cost, evals>>
    /\ epoch' = epoch + 1
    /\ pc' = "epoch"
    /\ UNCHANGED <<impl, y_training, x_training_scaled, y_training_oh, n_batch,
                   skfold, rs428, run, expt, sess, initialized, n_epoch,
                   display_step, avg_cost, test_folds, fold, train_steps, raised,
                   wsum, csum, fed, prev_folds, run1_parts, run1_end>>
    /\ UNCHANGED notebookVars

\* sess.run(accr, ...) raises in the report of an epoch: the epoch/cost line
\* is already printed, and the training accuracy too when the second
\* evaluation is the one that fails
EpochEvalFails ==
    /\ pc = "epoch_end"
    /\ ReportDue(epoch, display_step)
    /\ \E done \in {0, 1} :
          LET cs == SubSeq(EvalCalls(expt, x_training_scaled, y_training_oh), 1, done + 1)
          IN  /\ calls' = cs
              /\ params' = SessRuns(params, SubSeq(cs, 1, done))
              /\ log' = Append(log, [kind |-> "partial", epoch |-> epoch, accuracies |-> done])
              /\ printed_cost' = avg_cost
              /\ evals' = evals + done
    /\ raised' = "evaluate"
    /\ pc' = Uncaught(pc)
    /\ UNCHANGED <<impl, y_training, x_training_scaled, y_training_oh, n_batch,
                   skfold, rs428, run, expt, sess, initialized, n_epoch,
                   display_step, epoch, avg_cost, test_folds, fold, train_steps,
                   wsum, csum, fed, prev_folds, run1_parts, run1_end>>
    /\ UNCHANGED notebookVars

\* after the loop: evaluate both accuracies, then print them
FinalReport ==
    /\ pc = "epoch"
    /\ ~EpochLoopRuns(epoch, n_epoch)
    /\ calls' = EvalCalls(expt, x_training_scaled, y_training_oh)
    /\ params' = SessRuns(params, EvalCalls(expt, x_training_scaled, y_training_oh))
    /\ log' = Append(log, [kind |-> "final",
                           train_acc |-> Accr("training", train_steps),
                           val_acc |-> Accr("validation", train_steps)])
    /\ UNCHANGED printed_cost
    /\ evals' = evals + 2
    /\ pc' = "finished"
    /\ UNCHANGED <<impl, y_training, x_training_scaled, y_training_oh, n_batch,
                   skfold, rs428, run, expt, sess, initialized, n_epoch,
                   display_step, epoch, avg_cost, test_folds, fold, train_steps,
                   raised, wsum, csum, fed, prev_folds, run1_parts, run1_end>>
    /\ UNCHANGED notebookVars

\* one of the two evaluations after the loop raises, before anything is printed
FinalEvalFails ==
    /\ pc = "epoch"
    /\ ~EpochLoopRuns(epoch, n_epoch)
    /\ \E done \in {0, 1} :
          LET cs == SubSeq(EvalCalls(expt, x_training_scaled, y_training_oh), 1, done + 1)
          IN  /\ calls' = cs
              /\ params' = SessRuns(params, SubSeq(cs, 1, done))
              /\ evals' = evals + done
    /\ raised' = "evaluate"
    /\ pc' = Uncaught(pc)
    /\ UNCHANGED <<impl, y_training, x_training_scaled, y_training_oh, n_batch,
                   skfold, rs428, run, expt, sess, initialized, n_epoch,
                   display_step, epoch, avg_cost, test_folds, fold, train_steps,
                   log, printed_cost, wsum, csum, fed, prev_folds, run1_parts, run1_end>>
    /\ UNCHANGED notebookVars

\* sess.close() after each of the first three experiments
CloseSession ==
    /\ pc = "finished"
    /\ expt < NumExperiments
    /\ sess' = "closed"
    /\ pc' = "closed"
    /\ calls' = <<>>
    /\ UNCHANGED <<impl, y_training, x_training_scaled, y_training_oh, n_batch,
                   skfold, rs428, run, expt, initialized, n_epoch, display_step,
                   epoch, avg_cost, test_folds, fold, train_steps, evals, params,
                   raised, log, printed_cost, wsum, csum, fed, prev_folds,
                   run1_parts, run1_end>>
    /\ UNCHANGED notebookVars

\* tf.reset_default_graph(); sess = tf.InteractiveSession(); the next graph
NextExperiment ==
    /\ pc = "closed"
    /\ expt' = expt + 1
    /\ sess' = "open"
    /\ initialized' = FALSE
    /\ pc' = "setup"
    /\ calls' = <<>>
    /\ UNCHANGED <<impl, y_training, x_training_scaled, y_training_oh, n_batch,
                   skfold, rs428, run, n_epoch, display_step, epoch, avg_cost,
                   test_folds, fold, train_steps, evals, params, raised, log,
                   printed_cost, wsum, csum, fed, prev_folds, run1_parts, run1_end>>
    /\ UNCHANGED notebookVars

\* the convolutional network's session stays open for the error analysis:
\* y_pred_prob = sess.run(tf.nn.softmax(z_out), ...)
Predict ==
    /\ pc = "finished"
    /\ expt = NumExperiments
    /\ calls' = <<PredictCall(expt)>>
    /\ params' = SessRun(params, PredictCall(expt))
    /\ pc' = "exit"
    /\ UNCHANGED <<impl, y_training, x_training_scaled, y_training_oh, n_batch,
                   skfold, rs428, run, expt, sess, initialized, n_epoch,
                   display_step, epoch, avg_cost, test_folds, fold, train_steps,
                   evals, raised, log, printed_cost, wsum, csum, fed, prev_folds,
                   run1_parts, run1_end>>
    /\ UNCHANGED notebookVars

Next ==
    \/ ConstructSkfold
    \/ InitVariables
    \/ EpochStart
    \/ TrainStep
    \/ TrainStepFails
    \/ EpochEnd
    \/ EpochEvalFails
    \/ FinalReport
    \/ FinalEvalFails
    \/ CloseSession
    \/ NextExperiment
    \/ Predict

Spec == Init /\ [][Next]_vars

\* the script is executed a second time, after the first execution ended
\* or was interrupted, on the same files: the same labels, the same
\* n_batch, the same library, the same seed
Rerun ==
    /\ run = 1
    /\ run' = 2
    /\ skfold' = Unbuilt
    /\ expt' = 1
    /\ sess' = "open"
    /\ initialized' = FALSE
    /\ pc' = "build"
    /\ n_epoch' = 0
    /\ display_step' = 1
    /\ epoch' = 0
    /\ avg_cost' = <<0, 1>>
    /\ test_folds' = <<>>
    /\ fold' = 0
    /\ train_steps' = 0
    /\ evals' = 0
    /\ params' = <<>>
    /\ calls' = <<>>
    /\ raised' = "none"
    /\ log' = <<>>
    /\ printed_cost' = <<0, 1>>
    /\ wsum' = 0
    /\ csum' = 0
    /\ fed' = <<>>
    /\ prev_folds' = <<>>
    /\ UNCHANGED <<impl, y_training, x_training_scaled, y_training_oh, n_batch,
                   rs428, run1_parts, run1_end>>
    /\ UNCHANGED notebookVars

NextTwoRuns == Next \/ Rerun

\* two executions: as Init, with the history of the first execution recorded
InitTwoRuns == run = 1 /\ Start

SpecTwoRuns == InitTwoRuns /\ [][NextTwoRuns]_vars

\* target batch sizes of the batch-count arithmetic: whole numbers and
\* binary fractions, which a float holds exactly
TargetSizes == {<<1, 1>>, <<7, 1>>, <<30, 1>>, <<100, 1>>, <<3, 2>>, <<5, 4>>}

\* one-class label arrays of every length up to MaxCount, with every target size
SizeConfigs ==
    {<<[i \in 1..n |-> 0], nb>> : n \in 0..MaxCount, nb \in TargetSizes}

InitBatchCount ==
    run = 0 /\ StartOn(SizeConfigs) /\ OneValidationExample /\ OtherCellsIdle

\* the script up to the construction of the splitter
NextBatchCount == ConstructSkfold

SpecBatchCount == InitBatchCount /\ [][NextBatchCount]_vars

\* label arrays of every length whose two classes alternate, with every
\* target batch size
AlternatingConfigs ==
    {<<[i \in 1..n |-> i % 2], nb>> : n \in 0..MaxSamp, nb \in NBatchChoices}

InitFair ==
    run = 0 /\ StartOn(AlternatingConfigs) /\ OneValidationExample /\ OtherCellsIdle

\* the interpreter executes the script statement after statement: while a
\* statement is left to execute, one is executed
SpecFair == InitFair /\ [][Next]_vars /\ WF_vars(Next)

\* the kinds of the reports printed, with the epochs they are printed for
LogShape(l) ==
    [i \in DOMAIN l |-> IF l[i].kind = "final" THEN <<"final">> ELSE <<l[i].kind, l[i].epoch>>]

\* what a run of the training loop has done
RunSummary ==
    [steps |-> params, n_steps |-> train_steps, n_evals |-> evals, epochs |-> epoch,
     reports |-> LogShape(log), cost |-> avg_cost]

\* the first training loop (initializer, epochs, reports) is run a second
\* time in the same session, with the same data, splitter, n_epoch and
\* display_step; the batch losses of the second run are its own
Retrain ==
    /\ run = 3
    /\ pc = "finished"
    /\ expt = 1
    /\ run' = 4
    /\ run1_end' = {RunSummary}
    /\ train_steps' = 0
    /\ evals' = 0
    /\ params' = Initialize(params)
    /\ calls' = <<InitCall>>
    /\ epoch' = 0
    /\ log' = <<>>
    /\ printed_cost' = <<0, 1>>
    /\ test_folds' = <<>>
    /\ prev_folds' = <<>>
    /\ fed' = <<>>
    /\ wsum' = 0
    /\ csum' = 0
    /\ fold' = 0
    /\ avg_cost' = <<0, 1>>
    /\ pc' = "epoch"
    /\ UNCHANGED <<impl, y_training, x_training_scaled, y_training_oh, n_batch,
                   skfold, rs428, expt, sess, initialized, n_epoch, display_step,
                   raised, run1_parts>>
    /\ UNCHANGED notebookVars

NextLossPair == Next \/ Retrain

InitLossPair == run = 3 /\ Start

SpecLossPair == InitLossPair /\ [][NextLossPair]_vars

\* ------------------------------------------------ the half-image windows
\* the images are 28 pixels high and 28 wide
Side == 28

Min(a, b) == IF a < b THEN a ELSE b

\* vec.reshape(rows, cols): row r holds entries (r-1)*cols+1 .. r*cols
Reshape(v, rows, cols) ==
    [r \in 1..rows |-> [c \in 1..cols |-> v[(r - 1) * cols + c]]]

\* numpy's mat[a:b, :]: the rows numbered a .. b-1 from 0, whole rows
RowSlice(mat, a, b) == SubSeq(mat, a + 1, Min(b, Len(mat)))

pixel_mat(v) == Reshape(v, Side, Side)

upper_pixel_mat(v) == RowSlice(pixel_mat(v), 0, 13)

lower_pixel_mat(v) == RowSlice(pixel_mat(v), 14, 28)

\* the rows of train_df the windows are tried on: one pixel lit, all others dark
Images == {[i \in 1..(Side * Side) |-> IF i = p THEN 1 ELSE 0] : p \in 1..(Side * Side)}

InitWindows ==
    /\ LoopsIdle
    /\ PrepIdle /\ GraphIdle /\ ErrorsIdle
    /\ vec \in Images
    /\ upper_shown = <<>>
    /\ lower_shown = <<>>

\* ax.imshow(upper_pixel_mat(row), ...)
ShowUpper ==
    /\ upper_shown = <<>>
    /\ upper_shown' = upper_pixel_mat(vec)
    /\ UNCHANGED <<loopVars, prepVars, graph, errorVars, vec, lower_shown>>

\* ax.imshow(lower_pixel_mat(row), ...)
ShowLower ==
    /\ lower_shown = <<>>
    /\ lower_shown' = lower_pixel_mat(vec)
    /\ UNCHANGED <<loopVars, prepVars, graph, errorVars, vec, upper_shown>>

NextWindows == ShowUpper \/ ShowLower

SpecWindows == InitWindows /\ [][NextWindows]_vars


\* ------------------------------------------- the convolutional network
\* the largest number of rows fed to the placeholder x
MaxFeed == 16

n_feat == 784

n_class == 10

n_convfeat1 == 16

n_convfeat2 == 16

width1 == 512

\* the filters and weight matrices, by their shapes
W_conv1 == <<5, 5, 1, n_convfeat1>>

W_conv2 == <<5, 5, n_convfeat1, n_convfeat2>>

W_1 == <<7 * 7 * n_convfeat2, width1>>

W_out == <<width1, n_class>>

RECURSIVE Product(_)
Product(shape) ==
    IF shape = <<>> THEN 1 ELSE Head(shape) * Product(Tail(shape))

CeilDiv(a, b) == (a + b - 1) \div b

\* the shape of tf.reshape(t, target): the entry -1 of target is inferred
\* from the number of elements; <<>> when the sizes do not divide
ReshapeTo(shape, target) ==
    LET known == Product([i \in DOMAIN target |->
                             IF target[i] = -1 THEN 1 ELSE target[i]])
    IN  IF Product(shape) % known # 0
        THEN <<>>
        ELSE [i \in DOMAIN target |->
                 IF target[i] = -1 THEN Product(shape) \div known ELSE target[i]]

\* the shape of tf.nn.conv2d(input, filter, strides, padding='SAME'):
\* height and width are divided by the stride, rounded up, and the channels
\* are the filter's out_channels; <<>> when the channels do not match
Conv2dSame(in, filter, strides) ==
    IF in[4] # filter[3]
    THEN <<>>
    ELSE <<in[1], CeilDiv(in[2], strides[2]), CeilDiv(in[3], strides[3]), filter[4]>>

\* the shape of tf.nn.max_pool(value, ksize, strides, padding='SAME')
MaxPoolSame(in, ksize, strides) ==
    [i \in DOMAIN in |-> CeilDiv(in[i], strides[i])]

\* the shape of tf.matmul(a, w); <<>> when the inner dimensions differ
MatMul(a, w) == IF a[2] # w[1] THEN <<>> ELSE <<a[1], w[2]>>

Tensor(name, shape) == [name |-> name, shape |-> shape]

Last(g) == g[Len(g)]

\* x = tf.placeholder(tf.float32, shape=[None, n_feat]), fed with b rows
InitShapes ==
    /\ LoopsIdle
    /\ PrepIdle /\ WindowsIdle /\ ErrorsIdle
    /\ \E b \in 1..MaxFeed : graph = <<Tensor("x", <<b, n_feat>>)>>

\* the tensor called name has just been defined and is well-formed
Built(name) == Last(graph).name = name /\ Last(graph).shape # <<>>

\* x_image = tf.reshape(x, [-1,28,28,1])
BuildImage ==
    /\ Built("x")
    /\ graph' = Append(graph, Tensor("x_image",
                         ReshapeTo(Last(graph).shape, <<-1, 28, 28, 1>>)))
    /\ UNCHANGED <<loopVars, prepVars, windowVars, errorVars>>

\* h_conv1 = relu(conv2d(x_image, W_conv1, strides=[1, 1, 1, 1], 'SAME') + b_conv1)
BuildConv1 ==
    /\ Built("x_image")
    /\ graph' = Append(graph, Tensor("h_conv1",
                         Conv2dSame(Last(graph).shape, W_conv1, <<1, 1, 1, 1>>)))
    /\ UNCHANGED <<loopVars, prepVars, windowVars, errorVars>>

\* h_pool1 = max_pool(h_conv1, ksize=[1, 2, 2, 1], strides=[1, 2, 2, 1], 'SAME')
BuildPool1 ==
    /\ Built("h_conv1")
    /\ graph' = Append(graph, Tensor("h_pool1",
                         MaxPoolSame(Last(graph).shape, <<1, 2, 2, 1>>, <<1, 2, 2, 1>>)))
    /\ UNCHANGED <<loopVars, prepVars, windowVars, errorVars>>

BuildConv2 ==
    /\ Built("h_pool1")
    /\ graph' = Append(graph, Tensor("h_conv2",
                         Conv2dSame(Last(graph).shape, W_conv2, <<1, 1, 1, 1>>)))
    /\ UNCHANGED <<loopVars, prepVars, windowVars, errorVars>>

BuildPool2 ==
    /\ Built("h_conv2")
    /\ graph' = Append(graph, Tensor("h_pool2",
                         MaxPoolSame(Last(graph).shape, <<1, 2, 2, 1>>, <<1, 2, 2, 1>>)))
    /\ UNCHANGED <<loopVars, prepVars, windowVars, errorVars>>

\* h_pool2_flat = tf.reshape(h_pool2, [-1, 7*7*n_convfeat2])
BuildFlat ==
    /\ Built("h_pool2")
    /\ graph' = Append(graph, Tensor("h_pool2_flat",
                         ReshapeTo(Last(graph).shape, <<-1, 7 * 7 * n_convfeat2>>)))
    /\ UNCHANGED <<loopVars, prepVars, windowVars, errorVars>>

\* h_1 = relu(matmul(h_pool2_flat, W_1) + b_1); dropout keeps the shape
BuildDense ==
    /\ Built("h_pool2_flat")
    /\ graph' = Append(graph, Tensor("h_1",
                         MatMul(Last(graph).shape, W_1)))
    /\ UNCHANGED <<loopVars, prepVars, windowVars, errorVars>>

\* z_out = matmul(h_1_drop, W_out) + b_out
BuildOut ==
    /\ Built("h_1")
    /\ graph' = Append(graph, Tensor("z_out",
                         MatMul(Last(graph).shape, W_out)))
    /\ UNCHANGED <<loopVars, prepVars, windowVars, errorVars>>

NextShapes ==
    \/ BuildImage
    \/ BuildConv1
    \/ BuildPool1
    \/ BuildConv2
    \/ BuildPool2
    \/ BuildFlat
    \/ BuildDense
    \/ BuildOut

SpecShapes == InitShapes /\ [][NextShapes]_vars


\* ------------------------------------- the display of the misclassified
\* the classes are 0..MaxClass; a probability is a number of parts of Parts
MaxClass == 3

Parts == 4

RECURSIVE Sum(_)
Sum(v) == IF v = <<>> THEN 0 ELSE Head(v) + Sum(Tail(v))

\* the rows of y_pred_prob: softmax outputs, entry c + 1 the probability of
\* class c, the entries adding up to one
ProbVectors == {v \in [1..(MaxClass + 1) -> 0..Parts] : Sum(v) = Parts}

\* np.argmax(v): the first index at which the maximum is found
ArgMax(v) ==
    CHOOSE c \in 0..(Len(v) - 1) :
        /\ \A d \in 0..(Len(v) - 1) : v[d + 1] <= v[c + 1]
        /\ \A d \in 0..(c - 1) : v[d + 1] < v[c + 1]

Neg(v) == [i \in DOMAIN v |-> -v[i]]

\* np.argsort(w), kind 'quicksort': indices that put w in ascending order;
\* the sort is not stable, so equal entries come in an order the library
\* does not fix
ArgSorts(w) ==
    {q \in [1..Len(w) -> 0..(Len(w) - 1)] :
        /\ \A i, j \in DOMAIN q : i # j => q[i] # q[j]
        /\ \A i \in 1..(Len(w) - 1) : w[q[i] + 1] <= w[q[i + 1] + 1]}

\* prob_y = y_pred_prob[idx]
InitErrors ==
    /\ LoopsIdle
    /\ PrepIdle /\ WindowsIdle /\ GraphIdle
    /\ prob_y \in ProbVectors
    /\ top_pred = -1
    /\ arg_sort = <<>>
    /\ sec_choice = -1

\* top_pred = np.argmax(prob_y)
TopPred ==
    /\ top_pred = -1
    /\ top_pred' = ArgMax(prob_y)
    /\ UNCHANGED <<loopVars, prepVars, windowVars, graph, prob_y, arg_sort, sec_choice>>

\* arg_sort = np.argsort(-prob_y); sec_choice = arg_sort[1]
SecondChoice ==
    /\ top_pred # -1
    /\ arg_sort = <<>>
    /\ \E q \in ArgSorts(Neg(prob_y)) :
          /\ arg_sort' = q
          /\ sec_choice' = q[2]
    /\ UNCHANGED <<loopVars, prepVars, windowVars, graph, prob_y, top_pred>>

NextErrors == TopPred \/ SecondChoice

SpecErrors == InitErrors /\ [][NextErrors]_vars


\* ------------------------------------------------ the one-hot encoding
\* the class labels of the dataset are the integers 0-9
Digits == 0..(n_class - 1)

Rotation(k) == [i \in 1..n_class |-> (i - 1 + k) % n_class]

\* the label columns the encoder is fitted on: every digit occurs, in an
\* order that need not be ascending, and one of them twice
LabelFiles == {Rotation(k) \o <<c>> : k \in Digits, c \in Digits}

SetMin(S) == CHOOSE m \in S : \A o \in S : m <= o

RECURSIVE SortSet(_)
SortSet(S) ==
    IF S = {} THEN <<>> ELSE <<SetMin(S)>> \o SortSet(S \ {SetMin(S)})

RECURSIVE UniqueInFileOrder(_)
\* a slip: the classes in the order in which the file first shows them
UniqueInFileOrder(y) ==
    IF y = <<>> THEN <<>>
    ELSE LET rest == UniqueInFileOrder(SubSeq(y, 1, Len(y) - 1))
         IN  IF y[Len(y)] \in ClassesOf(rest) THEN rest ELSE Append(rest, y[Len(y)])

\* lb.fit(y): classes_ holds the distinct labels of y in ascending order
SortedUnique(y) == SortSet(ClassesOf(y))

\* lb.transform(y) with the fitted classes: with three or more classes the
\* row of a label has one column per class, 1 in the column of the label's
\* class; with two classes a single column, 1 for the larger class; with
\* one class a single column of 0
LbTransform(classes, y) ==
    IF Len(classes) >= 3
    THEN [i \in DOMAIN y |->
             [k \in 1..Len(classes) |-> IF classes[k] = y[i] THEN 1 ELSE 0]]
    ELSE IF Len(classes) = 2
    THEN [i \in DOMAIN y |-> <<IF y[i] = classes[2] THEN 1 ELSE 0>>]
    ELSE [i \in DOMAIN y |-> <<0>>]

\* train_df.iloc[idx]['label'].values
LabelsAt(y, idx) == [i \in DOMAIN idx |-> y[idx[i]]]

\* the rows taken for validation: here one row or two neighbouring rows
RowChoices(y) ==
    {<<i>> : i \in DOMAIN y} \cup {<<i, i + 1>> : i \in 1..(Len(y) - 1)}

InitLabels ==
    /\ LoopsIdle
    /\ WindowsIdle /\ GraphIdle /\ ErrorsIdle
    /\ y_train \in LabelFiles
    /\ validation_idx \in RowChoices(y_train)
    /\ training_idx = <<>>
    /\ x_training = <<>>
    /\ x_validation = <<>>
    /\ training_scaler = <<>>
    /\ lb = <<>>
    /\ y_act = <<>>
    /\ run1_scaled = {}

\* lb.fit(y_train)
FitLb ==
    /\ lb = <<>>
    /\ lb' = SortedUnique(y_train)
    /\ UNCHANGED <<loopVars, windowVars, graph, errorVars, y_train, training_idx,
                   validation_idx, x_training, x_validation, training_scaler,
                   x_validation_scaled, y_validation_oh, y_act, run1_scaled>>

\* y_validation_oh = lb.transform(y_validation)
TransformValidationLabels ==
    /\ lb # <<>>
    /\ y_validation_oh = <<>>
    /\ y_validation_oh' = LbTransform(lb, LabelsAt(y_train, validation_idx))
    /\ UNCHANGED <<loopVars, windowVars, graph, errorVars, y_train, training_idx,
                   validation_idx, x_training, x_validation, training_scaler,
                   x_validation_scaled, lb, y_act, run1_scaled>>

\* y_act = np.argmax(y_validation_oh, 1)
ActualLabels ==
    /\ y_validation_oh # <<>>
    /\ y_act = <<>>
    /\ y_act' = [i \in DOMAIN y_validation_oh |-> ArgMax(y_validation_oh[i])]
    /\ UNCHANGED <<loopVars, windowVars, graph, errorVars, y_train, training_idx,
                   validation_idx, x_training, x_validation, training_scaler,
                   x_validation_scaled, y_validation_oh, lb, run1_scaled>>

NextLabels == FitLb \/ TransformValidationLabels \/ ActualLabels

SpecLabels == InitLabels /\ [][NextLabels]_vars


\* ----------------------------------------------------------- the scaling
PixelValues == {0, 1, 2}

\* a row of the design matrix: here two pixels
PixelRows == [1..2 -> PixelValues]

TrainingMatrices == [1..2 -> PixelRows]

ValidationMatrices == [1..1 -> PixelRows]

SetMax(S) == CHOOSE m \in S : \A o \in S : o <= m

\* a slip: the scaler is fitted on the training and the validation rows
FitDataWithValidation(xtr, xval) == xtr \o xval

\* training_scaler.fit(x_training): the rows the scaler is fitted on
FitData(xtr, xval) == xtr

\* MaxAbsScaler.fit(X): the largest absolute value of every column; a
\* column that is all zero is scaled by 1
MaxAbs(X) ==
    [j \in DOMAIN X[1] |->
        LET m == SetMax({Abs(X[i][j]) : i \in DOMAIN X})
        IN  IF m = 0 THEN 1 ELSE m]

\* MaxAbsScaler.transform(X): every entry divided by the scale of its column
ScaleBy(scale, X) ==
    [i \in DOMAIN X |-> [j \in DOMAIN X[i] |-> Rat(X[i][j], scale[j])]]

InitScaler ==
    /\ LoopsIdleIn(5)
    /\ WindowsIdle /\ GraphIdle /\ ErrorsIdle
    /\ x_training \in TrainingMatrices
    /\ x_validation \in ValidationMatrices
    /\ training_scaler = <<>>
    /\ y_train = <<>>
    /\ training_idx = <<>>
    /\ validation_idx = <<>>
    /\ lb = <<>>
    /\ y_act = <<>>
    /\ run1_scaled = {}

\* training_scaler.fit(x_training)
FitScaler ==
    /\ training_scaler = <<>>
    /\ training_scaler' = MaxAbs(FitData(x_training, x_validation))
    /\ UNCHANGED <<loopVars, windowVars, graph, errorVars, y_train, training_idx,
                   validation_idx, x_training, x_validation, x_validation_scaled,
                   y_validation_oh, lb, y_act, run1_scaled>>

\* x_training_scaled = training_scaler.transform(x_training)
TransformTraining ==
    /\ training_scaler # <<>>
    /\ x_training_scaled = <<>>
    /\ x_training_scaled' = ScaleBy(training_scaler, x_training)
    /\ UNCHANGED <<loopState, y_training, y_training_oh, pc, run, windowVars,
                   graph, errorVars, y_train, training_idx, validation_idx,
                   x_training, x_validation, training_scaler,
                   x_validation_scaled, y_validation_oh, lb, y_act, run1_scaled>>

\* x_validation_scaled = training_scaler.transform(x_validation)
TransformValidation ==
    /\ x_training_scaled # <<>>
    /\ x_validation_scaled = <<>>
    /\ x_validation_scaled' = ScaleBy(training_scaler, x_validation)
    /\ UNCHANGED <<loopVars, windowVars, graph, errorVars, y_train, training_idx,
                   validation_idx, x_training, x_validation, training_scaler,
                   y_validation_oh, lb, y_act, run1_scaled>>

\* the scaling cells are executed again, on the same training rows and
\* other validation rows
Rescale ==
    /\ run = 5
    /\ x_validation_scaled # <<>>
    /\ run' = 6
    /\ run1_scaled' = {[scaler |-> training_scaler, scaled |-> x_training_scaled]}
    /\ \E xv \in ValidationMatrices \ {x_validation} : x_validation' = xv
    /\ training_scaler' = <<>>
    /\ x_training_scaled' = <<>>
    /\ x_validation_scaled' = <<>>
    /\ UNCHANGED <<loopState, y_training, y_training_oh, pc, windowVars, graph,
                   errorVars, y_train, training_idx, validation_idx, x_training,
                   y_validation_oh, lb, y_act>>

NextScaler == FitScaler \/ TransformTraining \/ TransformValidation \/ Rescale

SpecScaler == InitScaler /\ [][NextScaler]_vars


\* ------------------------------------------------- the validation split
\* the label columns the split is followed on: five rows, two classes
SplitFiles == {<<0, 0, 0, 1, 1>>, <<1, 0, 1, 1, 0>>}

\* the target batch sizes the loops are then run with: 3/2 and 2/5
SplitBatchChoices == {<<3, 2>>, <<2, 5>>}

Range(q) == {q[i] : i \in DOMAIN q}

\* the arrangements of the rows S in some order
Orders(S) ==
    {q \in [1..Cardinality(S) -> S] : \A i, j \in DOMAIN q : i # j => q[i] # q[j]}

\* n_test = ceil(test_size * n_samples) with test_size = 0.25
NTest(n) == CeilDiv(n, 4)

\* n_train = n_samples - n_test
NTrain(n) == n - NTest(n)

\* StratifiedShuffleSplit refuses a class with fewer than two members and
\* a training or test set smaller than the number of classes
ShuffleSplitError(y) ==
    \/ \E c \in ClassesOf(y) : Count(y, c) < 2
    \/ NTrain(Len(y)) < Cardinality(ClassesOf(y))
    \/ NTest(Len(y)) < Cardinality(ClassesOf(y))

\* the number of rows of every class in the training set: the class's
\* share of n_train rounded down, the rows still missing given one each to
\* the classes with the largest remainders
TrainCountsOk(y, rows) ==
    LET n == Len(y)
        share(c) == Count(y, c) * NTrain(n)
        got(c) == Cardinality({i \in rows : y[i] = c})
    IN  /\ Cardinality(rows) = NTrain(n)
        /\ \A c \in ClassesOf(y) : got(c) \in {share(c) \div n, share(c) \div n + 1}
        /\ \A c, d \in ClassesOf(y) :
               (got(c) = share(c) \div n + 1 /\ got(d) = share(d) \div n)
                   => share(c) % n >= share(d) % n

\* a slip: the test rows are drawn from all rows, those of the training
\* set included
RestWithReplacement(n, tr) == 1..n

\* the rows the split leaves for the test set
Rest(n, tr) == (1..n) \ tr

\* list(validation_split.split(x_train, y_train))[0]: what the seed 46
\* yields is one of the stratified splits, each set in a shuffled order
SplitOutcomes(y) ==
    IF ShuffleSplitError(y)
    THEN {}
    ELSE UNION {
             {<<tr, te>> : tr \in Orders(rows),
                           te \in UNION {Orders(t) :
                                     t \in {u \in SUBSET Rest(Len(y), rows) :
                                               Cardinality(u) = NTest(Len(y))}}} :
             rows \in {r \in SUBSET (1..Len(y)) : TrainCountsOk(y, r)}}

\* the rows idx of the scaled design matrix, each identified by its row
\* number in the file
RowsAt(idx) == idx

InitSplit ==
    /\ run = 0
    /\ impl \in Impls
    /\ y_train \in SplitFiles
    /\ n_batch \in SplitBatchChoices
    /\ pc = "load"
    /\ y_training = <<>>
    /\ x_training_scaled = <<>>
    /\ y_training_oh = <<>>
    /\ LoopNotBegun
    /\ x_validation_scaled = <<>>
    /\ y_validation_oh = <<>>
    /\ training_idx = <<>>
    /\ validation_idx = <<>>
    /\ x_training = <<>>
    /\ x_validation = <<>>
    /\ training_scaler = <<>>
    /\ lb = <<>>
    /\ y_act = <<>>
    /\ run1_scaled = {}
    /\ WindowsIdle /\ GraphIdle /\ ErrorsIdle

\* the split, the selection of the rows, their encoding and scaling
ValidationSplit ==
    /\ pc = "load"
    /\ \E sp \in SplitOutcomes(y_train) :
          /\ training_idx' = sp[1]
          /\ validation_idx' = sp[2]
          /\ y_training' = LabelsAt(y_train, sp[1])
          /\ y_training_oh' = Transform(LabelsAt(y_train, sp[1]))
          /\ x_training_scaled' = RowsAt(sp[1])
          /\ y_validation_oh' = Transform(LabelsAt(y_train, sp[2]))
          /\ x_validation_scaled' = RowsAt(sp[2])
    /\ pc' = "build"
    /\ UNCHANGED <<loopState, run, windowVars, graph, errorVars, y_train,
                   x_training, x_validation, training_scaler, lb, y_act,
                   run1_scaled>>

NextSplit == ValidationSplit \/ Next

SpecSplit == InitSplit /\ [][NextSplit]_vars


\* ------------------------------------------------------------- properties
InEpoch == pc \in {"batch", "epoch_end"}

LoopDone == pc \in {"finished", "closed", "exit"}

\* the number of iterations of the fold loop that an epoch makes
K == skfold.n_splits

CountIn(batch, c) == Cardinality({j \in batch : y_training[j] = c})

EqualSizes(bs) ==
    \A a, b \in DOMAIN bs : Cardinality(bs[a]) = Cardinality(bs[b])

ShufflesPossible == SplitSpace(impl, y_training, K)

\* C1: in every epoch the batches fed to the optimizer are pairwise
\* disjoint, and when the epoch's fold loop ends their union is the whole
\* training index set: every example was in exactly one batch.
C1_BatchesPartitionTrainingSet ==
    InEpoch =>
        /\ \A a, b \in DOMAIN fed : a # b => fed[a] \cap fed[b] = {}
        /\ pc = "epoch_end" =>
              /\ UNION {fed[m] : m \in DOMAIN fed} = 1..n_samp
              /\ \A j \in 1..n_samp : Cardinality({m \in DOMAIN fed : j \in fed[m]}) = 1

C1_Witness ==
    /\ pc = "epoch_end"
    /\ epoch >= 1
    /\ Len(fed) >= 2
    /\ \A m \in DOMAIN fed : fed[m] # {}
    /\ \E m \in DOMAIN fed : Cardinality(fed[m]) >= 2

\* C2: the optimizer has run total_batch times in every finished epoch,
\* once on each fold in the order of the folds, so that it has run
\* n_epoch * total_batch times when the loop is over.
C2_TrainStepCount ==
    /\ pc = "epoch" => train_steps = epoch * total_batch
    /\ pc = "batch" => train_steps = epoch * total_batch + fold
    /\ pc = "epoch_end" =>
          /\ train_steps = (epoch + 1) * total_batch
          /\ fed = [m \in 1..total_batch |-> Batch(test_folds, m - 1)]
    /\ LoopDone => train_steps = n_epoch * total_batch

C2_Witness ==
    /\ pc = "finished"
    /\ n_epoch >= 2
    /\ total_batch >= 2
    /\ train_steps = n_epoch * total_batch

C4_SameSplitsInBothRuns ==
    (run = 2 /\ InEpoch) => run1_parts \subseteq {test_folds}

C4_Witness ==
    /\ run = 2
    /\ pc = "batch"
    /\ epoch >= 1
    /\ run1_parts = {test_folds}
    /\ Cardinality(ShufflesPossible) > 1

\* the "Epoch ... cost" line of the epoch just ended has been printed
CostJustReported ==
    /\ pc = "epoch"
    /\ epoch >= 1
    /\ log # <<>>
    /\ log[Len(log)].kind = "epoch"
    /\ log[Len(log)].epoch = epoch - 1

\* C5 as stated: the cost reported for an epoch is the mean of the epoch's
\* batch losses weighted by batch size, sum(loss * size) / n_samp, whatever
\* the sizes of the batches.
C5_CostIsWeightedMean ==
    CostJustReported => printed_cost = Rat(wsum, n_samp)

\* C5 as amended: the cost reported for an epoch is the weighted mean of
\* the batch losses when all batches of the epoch have the same size
\* (it is the unweighted mean, sum(loss) / total_batch, in every case).
C5_CostIsWeightedMeanOfEqualBatches ==
    (CostJustReported /\ EqualSizes(fed)) => printed_cost = Rat(wsum, n_samp)

C5_Witness ==
    /\ CostJustReported
    /\ EqualSizes(fed)
    /\ Len(fed) >= 2
    /\ printed_cost = <<3, 2>>
    /\ printed_cost = Rat(wsum, n_samp)

\* C6 as stated: every batch holds n_samp // total_batch examples or one
\* more, whatever the class distribution.
C6_BalancedBatchSizes ==
    pc = "epoch_end" =>
        \A m \in DOMAIN fed :
            Cardinality(fed[m]) \in {n_samp \div K, (n_samp \div K) + 1}

\* C6 as amended: every batch holds, of each class, the class count
\* divided by total_batch, rounded down or up, so its size lies between
\* the sums of these; it is n_samp // total_batch or one more when the
\* library allocates the folds over the sorted labels.
C6_BatchSizes ==
    pc = "epoch_end" =>
        \A m \in DOMAIN fed :
            /\ \A c \in ClassesOf(y_training) :
                  /\ CountIn(fed[m], c) >= Count(y_training, c) \div K
                  /\ CountIn(fed[m], c) <= (Count(y_training, c) + K - 1) \div K
            /\ impl = "balanced" =>
                  Cardinality(fed[m]) \in {n_samp \div K, (n_samp \div K) + 1}

C6_Witness ==
    /\ pc = "epoch_end"
    /\ impl = "balanced"
    /\ Cardinality(ClassesOf(y_training)) = 2
    /\ \E m \in DOMAIN fed : Cardinality(fed[m]) = (n_samp \div K) + 1
    /\ \E m \in DOMAIN fed : Cardinality(fed[m]) = n_samp \div K

\* every batch has, of every label, a number of examples that differs from
\* (count of the label) / total_batch by less than one
Stratified ==
    \A m \in DOMAIN fed : \A c \in ClassesOf(y_training) :
        /\ K * CountIn(fed[m], c) - Count(y_training, c) < K
        /\ Count(y_training, c) - K * CountIn(fed[m], c) < K

\* C7 as stated: every batch is stratified, and with ten examples, five of
\* each of two classes, in two batches, each batch holds exactly five
\* examples, two or three of each class.
C7_StratifiedAndFiveEach ==
    pc = "epoch_end" =>
        /\ Stratified
        /\ y_training = TenExamples =>
              \A m \in DOMAIN fed :
                  /\ Cardinality(fed[m]) = 5
                  /\ \A c \in Labels : CountIn(fed[m], c) \in {2, 3}

\* C7 as amended: every batch is stratified, and with ten examples, five
\* of each of two classes, in two batches, each batch holds two or three of
\* each class; it holds exactly five examples when the library allocates
\* the folds over the sorted labels (four to six otherwise).
C7_Stratified ==
    pc = "epoch_end" =>
        /\ Stratified
        /\ y_training = TenExamples =>
              \A m \in DOMAIN fed :
                  /\ \A c \in Labels : CountIn(fed[m], c) \in {2, 3}
                  /\ Cardinality(fed[m]) \in 4..6
                  /\ impl = "balanced" => Cardinality(fed[m]) = 5

C7_Witness ==
    /\ pc = "epoch_end"
    /\ y_training = TenExamples
    /\ impl = "balanced"
    /\ Len(fed) = 2
    /\ \E m \in DOMAIN fed : CountIn(fed[m], 0) = 3 /\ CountIn(fed[m], 1) = 2

\* the entries of the log that report epoch e with its index (and cost)
\* and both accuracies
EpochReports(e) ==
    {i \in DOMAIN log : log[i].kind = "epoch" /\ log[i].epoch = e}

FinalReports == {i \in DOMAIN log : log[i].kind = "final"}

\* C8 as stated: a report with the epoch index, the cost and both
\* accuracies is printed for epoch e exactly when e is a multiple of
\* display_step or e is the last epoch.
C8_ReportIffDueOrLast ==
    LoopDone =>
        \A e \in 0..(n_epoch - 1) :
            (EpochReports(e) # {}) <=> (e % display_step = 0 \/ e = n_epoch - 1)

\* C8 as amended: a report with the epoch index, the cost and both
\* accuracies is printed after the last batch of epoch e exactly when e is
\* a multiple of display_step, once, in the order of the epochs; the last
\* epoch gets no such report unless it is a multiple too.  When the loop is
\* over one more report follows, with both accuracies and neither epoch
\* index nor cost.  Nothing else is printed while the run goes well.
\* (At "setup" the screen still shows the experiment before.)
C8_ReportIffDue ==
    pc # "setup" =>
        /\ \A e \in 0..(epoch - 1) :
              Cardinality(EpochReports(e)) = (IF e % display_step = 0 THEN 1 ELSE 0)
        /\ \A i \in DOMAIN log :
              log[i].kind = "epoch" =>
                  /\ log[i].epoch < epoch
                  /\ log[i].train_acc = Accr("training", (log[i].epoch + 1) * total_batch)
                  /\ log[i].val_acc = Accr("validation", (log[i].epoch + 1) * total_batch)
                  /\ \A j \in 1..(i - 1) :
                        log[j].kind = "epoch" /\ log[j].epoch < log[i].epoch
        /\ CostJustReported => printed_cost = avg_cost
        /\ Cardinality(FinalReports) = (IF LoopDone THEN 1 ELSE 0)
        /\ LoopDone => log[Len(log)].kind = "final"
        /\ pc # "model_error" => \A i \in DOMAIN log : log[i].kind \in {"epoch", "final"}

C8_Witness ==
    /\ pc = "finished"
    /\ n_epoch = 2
    /\ display_step = 2
    /\ Len(log) = 2
    /\ log[1].kind = "epoch"
    /\ log[1].epoch = 0
    /\ log[2].kind = "final"

\* C9: the accuracies of the last epoch are evaluated and reported exactly
\* once, also when the last epoch is a multiple of display_step.
C9_LastEpochReportedOnce ==
    pc = "finished" =>
        Cardinality(EpochReports(n_epoch - 1) \cup FinalReports) = 1

\* C10: with more folds than examples no optimizer run is ever made: the
\* loop is entered, the first split() raises, and the run ends there.
C10_NoTrainStepWhenTooManyFolds ==
    total_batch > n_samp =>
        /\ train_steps = 0
        /\ pc \in {"build", "setup", "epoch", "config_error"}
        /\ pc = "epoch" =>
              /\ epoch = 0
              /\ epoch < n_epoch
              /\ SplitError(y_training, K) # "ok"

C10_Witness ==
    /\ pc = "config_error"
    /\ n_samp = 4
    /\ total_batch = 10
    /\ initialized
    /\ train_steps = 0

\* some class has fewer examples than there are batches
SomeClassTooSmall ==
    \E c \in ClassesOf(y_training) : Count(y_training, c) < total_batch

\* C11: when some class has fewer examples than there are batches, the run
\* ends in a configuration error before the optimizer has run once: no
\* training is done on batches that miss the class.
C11_FailsWhenClassTooSmall ==
    SomeClassTooSmall =>
        /\ train_steps = 0
        /\ ~LoopDone

\* C12: once sess.run has raised, in a train step or in an evaluation, the
\* script is over: no optimizer run, no evaluation, no report and no other
\* session run follows, the failed call is not made again, and the fold and
\* epoch counters stay where they were.
C12_FailureEndsTheRun ==
    /\ [](raised # "none" => pc = "model_error")
    /\ [][raised # "none" =>
            UNCHANGED <<train_steps, evals, params, calls, log, epoch, fold, pc>>]_vars

C12_Witness ==
    /\ raised = "train_step"
    /\ pc = "model_error"
    /\ train_steps >= 1
    /\ fold < skfold.n_splits
    /\ epoch + 1 < n_epoch

\* the rows the optimizer was run on in the m-th train step of an experiment
\* whose epochs all use the split test_folds
RowsOfStep(m) == TakeRows(x_training_scaled, Batch(test_folds, (m - 1) % K))

\* C13: the parameters are the result of the train steps alone: in the loop
\* they are what the train_steps optimizer runs made so far have left, so
\* the first batch of an epoch meets the parameters the last batch of the
\* epoch before has left, reported or not; and no step that evaluates (the
\* report of an epoch, the report after the loop, the prediction) changes
\* the parameters or the number of updates.
C13_OnlyTrainStepsUpdate ==
    /\ [](InEpoch => params = [m \in 1..train_steps |-> RowsOfStep(m)])
    /\ [][(pc \in {"epoch", "epoch_end", "finished"}) =>
            UNCHANGED <<params, train_steps>>]_vars

C13_Witness ==
    /\ pc = "batch"
    /\ fold = 0
    /\ epoch = 1
    /\ evals = 2
    /\ EpochReports(0) # {}
    /\ Len(params) = K
    /\ train_steps = K

\* C14: in the experiments whose model has a dropout layer, every run that
\* fetches the accuracy or the predicted probabilities is fed keep_prob = 1
\* and every run that fetches the optimizer is fed keep_prob = 1/2.
C14_DropoutOffInEvaluation ==
    HasDropout(expt) =>
        \A i \in DOMAIN calls :
            /\ "optimizer" \in calls[i].fetches => calls[i].keep_prob = {<<1, 2>>}
            /\ calls[i].fetches \cap {"accr", "softmax"} # {} =>
                  calls[i].keep_prob = {<<1, 1>>}

C14_Witness ==
    /\ expt = NumExperiments
    /\ pc = "exit"
    /\ train_steps >= 2
    /\ evals >= 4
    /\ Len(calls) = 1
    /\ calls[1].fetches = {"softmax"}
    /\ calls[1].keep_prob = {<<1, 1>>}

\* C15: the running cost is zero when the first batch of an epoch is
\* reached, it is the sum of the losses of this epoch's batches so far
\* divided by total_batch all through the epoch, and the cost printed for
\* an epoch is that of the epoch's own batches.
C15_CostOfThisEpochOnly ==
    /\ (pc = "batch" /\ fold = 0) => avg_cost = <<0, 1>>
    /\ InEpoch => avg_cost = Rat(csum, total_batch)
    /\ CostJustReported => printed_cost = Rat(csum, total_batch)

C15_Witness ==
    /\ CostJustReported
    /\ epoch = 2
    /\ EpochReports(0) # {}
    /\ csum = 2
    /\ printed_cost = <<1, 1>>

\* sequence a is an initial part of sequence b
IsPrefix(a, b) == Len(a) <= Len(b) /\ a = SubSeq(b, 1, Len(a))

\* C16: when the training loop is run twice on the same data, splitter,
\* n_epoch and display_step, the second run, whatever losses its train
\* steps return, makes the optimizer runs of the first on the same batches
\* in the same order and prints its reports for the same epochs: it never
\* departs from the first run while it goes, and when it has finished it has
\* made the same train steps, evaluations, epochs and reports.
C16_LossesDoNotSteer ==
    (run = 4 /\ run1_end # {}) =>
        \A first \in run1_end :
            /\ IsPrefix(params, first.steps)
            /\ IsPrefix(LogShape(log), first.reports) \/ raised = "evaluate"
            /\ epoch <= first.epochs
            /\ LoopDone =>
                  /\ params = first.steps
                  /\ train_steps = first.n_steps
                  /\ evals = first.n_evals
                  /\ epoch = first.epochs
                  /\ LogShape(log) = first.reports

C16_Witness ==
    /\ run = 4
    /\ pc = "finished"
    /\ n_epoch = 2
    /\ display_step = 1
    /\ \E first \in run1_end :
          /\ first.cost # avg_cost
          /\ first.steps = params
          /\ Len(first.reports) = 3

\* C17: a training loop that has begun its batches comes to its end,
\* unless a session run raises; it ends only when n_epoch epochs have been
\* run, each over all its folds, and no step leaves the loop any sooner:
\* the fold loop is left for the end of the epoch, and the epoch loop for
\* the report after the last epoch.
C17_RunsAllEpochs ==
    /\ [](pc = "batch" => <>(LoopDone \/ raised # "none"))
    /\ [](LoopDone => (epoch = n_epoch /\ train_steps = n_epoch * total_batch))
    /\ [][(InEpoch /\ raised' = "none") =>
            (pc' \in {"batch", "epoch_end", "epoch"} /\ epoch' <= n_epoch)]_vars
    /\ [][(pc = "epoch" /\ pc' = "finished") => epoch = n_epoch]_vars

C17_Witness ==
    /\ pc = "finished"
    /\ raised = "none"
    /\ n_epoch = MaxEpoch
    /\ epoch = MaxEpoch
    /\ display_step = 2
    /\ train_steps = MaxEpoch * total_batch
    /\ total_batch >= 2

C19_DatasetUnchanged ==
    /\ [](x_training_scaled = Features(y_training) /\ y_training_oh = Transform(y_training))
    /\ [][UNCHANGED <<x_training_scaled, y_training, y_training_oh>>]_vars

C19_Witness ==
    /\ pc = "epoch_end"
    /\ epoch = 1
    /\ evals = 2
    /\ train_steps = 2 * K
    /\ Len(x_training_scaled) = MaxSamp
    /\ x_training_scaled = Features(y_training)
    /\ y_training_oh = Transform(y_training)

\* the index set of the batch that the train step just taken has sliced
LastBatch == IF raised = "train_step" THEN Batch(test_folds, fold) ELSE fed[Len(fed)]

\* C20: in every train step the feature rows fed are the rows of the
\* batch's indices; the label rows fed are as many, and the label row at
\* every position is the one-hot row of the integer label of the example
\* whose feature row is at that position, the label by which the example
\* was put into this fold.
C20_BatchRowsBelongTogether ==
    \A i \in DOMAIN calls :
        "optimizer" \in calls[i].fetches =>
            LET c == calls[i] IN
            /\ Len(c.x) = Cardinality(LastBatch)
            /\ Len(c.y_true) = Len(c.x)
            /\ {c.x[q] : q \in DOMAIN c.x} = LastBatch
            /\ \A q \in DOMAIN c.x :
                  /\ c.y_true[q] = OneHot(y_training[c.x[q]])
                  /\ Decode(c.y_true[q]) = y_training[c.x[q]]
                  /\ c.y_true[q] = y_training_oh[c.x[q]]

C20_Witness ==
    /\ pc = "batch"
    /\ fold = 1
    /\ Len(calls) = 1
    /\ "optimizer" \in calls[1].fetches
    /\ Len(calls[1].x) = 2
    /\ calls[1].x = <<1, 3>>
    /\ Decode(calls[1].y_true[1]) = 0
    /\ Decode(calls[1].y_true[2]) = 1

\* C27: the splitter, once constructed, is never replaced, and what its
\* seed yields is fixed by the first split: in every epoch of every
\* experiment the split is the one of the first epoch of the first
\* experiment, and the batches are fed fold after fold in the same order.
C27_SameBatchesInEveryLoop ==
    /\ [](InEpoch =>
            /\ \A d \in rs428 : test_folds = MakeTestFolds(y_training, d)
            /\ Cardinality(rs428) = 1
            /\ fed = [m \in 1..Len(fed) |-> Batch(test_folds, m - 1)])
    /\ [][rs428 # {} => rs428' = rs428]_vars
    /\ [][pc # "build" => skfold' = skfold]_vars

C27_Witness ==
    /\ expt = NumExperiments
    /\ pc = "epoch_end"
    /\ epoch = 1
    /\ \A d \in rs428 : test_folds = MakeTestFolds(y_training, d)
    /\ Cardinality(ShufflesPossible) > 1
    /\ Len(fed) = 2

\* C28: every train step, evaluation and prediction runs in an open
\* session after the initializer of its experiment; the initializer runs
\* only on variables not yet initialized, hence once per experiment, and
\* leaves no update in the parameters; a session is closed only when its
\* training loop has finished, and the next experiment begins only from a
\* closed session, with a new session whose variables are uninitialized.
C28_SessionAndInitializerOrder ==
    /\ [](\A i \in DOMAIN calls :
              calls[i].fetches # {"init"} => (initialized /\ sess = "open"))
    /\ []((pc \in {"epoch", "batch", "epoch_end", "finished", "exit"}) =>
              (initialized /\ sess = "open"))
    /\ []((pc = "epoch" /\ epoch = 0) =>
              (params = <<>> /\ train_steps = 0 /\ evals = 0))
    /\ [][calls' = <<InitCall>> =>
              (~initialized /\ initialized' /\ sess = "open" /\ pc = "setup")]_vars
    /\ [][expt' # expt =>
              (expt' = expt + 1 /\ sess = "closed" /\ sess' = "open" /\ ~initialized')]_vars
    /\ [][(sess = "open" /\ sess' = "closed") => pc = "finished"]_vars

C28_Witness ==
    /\ expt = 2
    /\ pc = "batch"
    /\ epoch = 0
    /\ fold = 1
    /\ initialized
    /\ sess = "open"
    /\ Len(params) = 1

\* C29: with fewer than twice n_batch examples total_batch is 0 or 1, the
\* constructor of the splitter raises, and the script ends there: the
\* initializer has not run, no train step is made, and no state in which
\* c / total_batch is computed has total_batch = 0.
C29_TooFewExamplesFailAtConstruction ==
    /\ (n_samp * n_batch[2] < 2 * n_batch[1]) =>
          /\ total_batch \in {0, 1}
          /\ pc \in {"build", "config_error"}
          /\ ~initialized
          /\ train_steps = 0
          /\ calls = <<>>
    /\ InEpoch => total_batch >= 2

C29_Witness ==
    /\ pc = "config_error"
    /\ n_samp = MaxSamp
    /\ total_batch = 0
    /\ n_samp * n_batch[2] < 2 * n_batch[1]
    /\ ~initialized

\* C23: the upper window is the first 14 rows of the image, the lower
\* window the last 14, and the two put together are the whole image, each
\* row once.
C23_WindowsCoverTheImage ==
    /\ upper_shown # <<>> => upper_shown = SubSeq(pixel_mat(vec), 1, 14)
    /\ lower_shown # <<>> => lower_shown = SubSeq(pixel_mat(vec), 15, 28)
    /\ (upper_shown # <<>> /\ lower_shown # <<>>) =>
           upper_shown \o lower_shown = pixel_mat(vec)

\* C24: h_conv1 is a 28x28 image with 8 features, h_pool1 a 14x14 image
\* with the same 8 features, h_pool2 a 7x7 image with 16 features, and the
\* length 7*7*16 of a flattened row is the input dimension of W_1.
C24_LayerShapes ==
    \A i \in DOMAIN graph :
        /\ graph[i].name = "h_conv1" =>
               SubSeq(graph[i].shape, 2, 4) = <<28, 28, 8>>
        /\ graph[i].name = "h_pool1" =>
               SubSeq(graph[i].shape, 2, 4) = <<14, 14, 8>>
        /\ graph[i].name = "h_pool2" =>
               SubSeq(graph[i].shape, 2, 4) = <<7, 7, 16>>
        /\ graph[i].name = "h_pool2_flat" =>
               (graph[i].shape = <<graph[1].shape[1], 7 * 7 * 16>> /\ W_1[1] = 7 * 7 * 16)

\* C25: the first entry of argsort(-prob_y) is the argmax class; the
\* second choice is another class than the top prediction, no more
\* probable than it and at least as probable as every remaining class,
\* ties included.
C25_SecondChoiceIsAnotherClass ==
    sec_choice # -1 =>
        /\ arg_sort[1] = top_pred
        /\ sec_choice # top_pred
        /\ prob_y[sec_choice + 1] <= prob_y[top_pred + 1]
        /\ \A c \in 0..MaxClass :
               c # top_pred => prob_y[c + 1] <= prob_y[sec_choice + 1]

\* C22: once the encoder is fitted, the row it gives a label c of 0..9 has
\* ten entries, 1 at position c and 0 elsewhere, and argmax of the row is
\* c; the labels recovered by argmax from the encoded validation labels
\* are the validation labels.
C22_OneHotRoundTrip ==
    /\ lb # <<>> =>
          \A c \in Digits :
              LET row == LbTransform(lb, <<c>>)[1]
              IN  /\ Len(row) = 10
                  /\ row[c + 1] = 1
                  /\ \A k \in 1..10 : k # c + 1 => row[k] = 0
                  /\ ArgMax(row) = c
    /\ y_act # <<>> => y_act = LabelsAt(y_train, validation_idx)

C22_Witness ==
    /\ y_act = <<9, 0>>
    /\ y_train[1] = 5
    /\ y_validation_oh[1][10] = 1
    /\ y_validation_oh[2][1] = 1

\* C21: when the scaling is done again on the same training rows and other
\* validation rows, the fitted scaler and the scaled training set are
\* those of the first time.
C21_ValidationDoesNotInfluenceScaling ==
    run = 6 =>
        \A r \in run1_scaled :
            /\ training_scaler # <<>> => training_scaler = r.scaler
            /\ x_training_scaled # <<>> => x_training_scaled = r.scaled

C21_Witness ==
    /\ run = 6
    /\ x_validation_scaled = <<<<<<2, 1>>, <<0, 1>>>>>>
    /\ training_scaler = <<1, 2>>
    /\ x_training_scaled = <<<<<<1, 1>>, <<1, 2>>>>, <<<<0, 1>>, <<1, 1>>>>>>

\* C26: no row of the file is in both index sets of the validation split,
\* and every row fed to the optimizer, in the step just taken and in all
\* steps since the initializer, is a training row and not a validation row.
C26_NoValidationExampleInTraining ==
    /\ Range(training_idx) \cap Range(validation_idx) = {}
    /\ \A i \in DOMAIN calls :
           "optimizer" \in calls[i].fetches =>
               /\ Range(calls[i].x) \subseteq Range(training_idx)
               /\ Range(calls[i].x) \cap Range(validation_idx) = {}
    /\ \A p \in DOMAIN params :
           /\ Range(params[p]) \subseteq Range(training_idx)
           /\ Range(params[p]) \cap Range(validation_idx) = {}

C26_Witness ==
    /\ expt = NumExperiments
    /\ epoch = 1
    /\ pc = "batch"
    /\ Len(params) = 3
    /\ validation_idx = <<4, 1>>
    /\ Range(params[3]) # {}

====
